---- MODULE Spec2Model ----
(***************************************************************************)
(* A model of src/bypass.cc: the JsValue tree (from_v8 / to_v8) and the    *)
(* BypassStore keyed cache (Set, Get, Del, List).                          *)
(*                                                                         *)
(* Representation of the C++ and V8 data:                                  *)
(*  - a 64-bit signed integer is the pair <<hi, lo>> of its two 32-bit     *)
(*    words, each written as the signed 32-bit integer with that bit       *)
(*    pattern: the integer is hi * 2^32 + (lo mod 2^32).  All widths are   *)
(*    the real ones; (int32_t)k is simply the lo word.                     *)
(*  - a JavaScript number is [hi, lo, frac]: the integer <<hi, lo>> it     *)
(*    truncates to, plus frac/2 (frac in {-1, 0, 1}, frac's sign that of   *)
(*    the number), which is enough for integral and non-integral doubles.  *)
(*  - a JavaScript string is the sequence of its UTF-16 code units (BMP),  *)
(*    a char buffer or std::string is the sequence of its bytes (0..255).  *)
(*  - a JavaScript value is a record [t, num, str, elems, names]; an       *)
(*    object's own enumerable properties are names[i] -> elems[i], in      *)
(*    V8's enumeration order (array-index names ascending, then the other  *)
(*    names in insertion order).                                           *)
(*  - a JsValue node is a record [t, m_val, m_buff, m_vals, m_keys]; a     *)
(*    std::map is the pair of sequences m_keys (ascending) and m_vals.     *)
(***************************************************************************)
EXTENDS Integers, Sequences, FiniteSets, TLC

VARIABLES
    m_cache,    \* BypassStore::m_cache: [keys |-> ascending Seq(int64), vals |-> Seq(JsValue)]
    call,       \* the call the host made last: [op, key, val]
    ret,        \* what that call returned: [val, ref], ref the identity of a new object
    last,       \* history: for each int64 key, its most recent mutation
    heap,       \* the caller's own JavaScript objects, by identity (handle)
    v8val,      \* codec: the JavaScript value being encoded
    tree,       \* codec: from_v8(v8val)
    out,        \* codec: tree->to_v8()
    pc          \* codec: "start", "build", "encoded" or "decoded"

vars == <<m_cache, call, ret, last, heap, v8val, tree, out, pc>>

(***************************************************************************)
(* Bounds of the model.                                                    *)
(***************************************************************************)
MaxEntries == 2     \* live entries the store holds at once
MaxNodes == 3       \* nodes of a JavaScript value the codec is run on
MaxObjects == 2     \* objects the caller holds at once

(***************************************************************************)
(* Integers.                                                               *)
(***************************************************************************)
INT32_MAX == 2147483647
INT32_MIN == -INT32_MAX - 1

Int64(hi, lo) == <<hi, lo>>
Zero64 == Int64(0, 0)

\* unsigned comparison of two 32-bit words given by their signed reading
ULess32(x, y) == IF (x < 0) = (y < 0) THEN x < y ELSE y < 0

\* std::less<int64_t>, the order of CacheMap
Less64(a, b) == a[1] < b[1] \/ (a[1] = b[1] /\ ULess32(a[2], b[2]))

\* the int64_t an int32_t widens to (sign extension)
Widen32(w) == Int64(IF w < 0 THEN -1 ELSE 0, w)

\* (int32_t)k, the implicit conversion at Int32::New(iter->first)
Narrow32(k) == k[2]

(***************************************************************************)
(* JavaScript numbers.                                                     *)
(***************************************************************************)
Number(hi, lo, frac) == [hi |-> hi, lo |-> lo, frac |-> frac]
NumberOfInt64(k) == Number(k[1], k[2], 0)
NumberOfInt(n) == NumberOfInt64(Widen32(n))
NoNumber == NumberOfInt(0)

\* v8::Value::Int32Value on a number: ToInt32, the low 32 bits of the integer part
Int32Value(n) == n.lo

\* v8::Int32::New(w)
Int32_New(w) == NumberOfInt64(Widen32(w))

\* v8::Value::IsInt32 on a number: converting to int32 and back gives the number
IsInt32Number(n) == Int32_New(Int32Value(n)) = n

(***************************************************************************)
(* Strings, UTF-8 and the char buffers.                                    *)
(***************************************************************************)
RECURSIVE Concat(_)
Concat(ss) == IF ss = <<>> THEN <<>> ELSE Head(ss) \o Concat(Tail(ss))

\* the UTF-8 bytes of one code unit
Utf8Encode(c) ==
    IF c < 128 THEN <<c>>
    ELSE IF c < 2048 THEN <<192 + (c \div 64), 128 + (c % 64)>>
    ELSE <<224 + (c \div 4096), 128 + ((c \div 64) % 64), 128 + (c % 64)>>

\* String::WriteUtf8 into a buffer of Utf8Length() bytes: every byte, no terminator
WriteUtf8(str) == Concat([i \in 1..Len(str) |-> Utf8Encode(str[i])])

IsCont(b) == b >= 128 /\ b < 192

\* String::New(data, length): the code units of a UTF-8 byte sequence; a byte that
\* starts no well-formed sequence decodes to U+FFFD
RECURSIVE Utf8Decode(_)
Utf8Decode(bytes) ==
    IF bytes = <<>> THEN <<>>
    ELSE LET b == bytes[1]
             n == Len(bytes)
         IN  IF b < 128 THEN <<b>> \o Utf8Decode(Tail(bytes))
             ELSE IF b >= 192 /\ b < 224 /\ n >= 2 /\ IsCont(bytes[2])
                  THEN <<(b - 192) * 64 + (bytes[2] - 128)>>
                       \o Utf8Decode(SubSeq(bytes, 3, n))
             ELSE IF b >= 224 /\ b < 240 /\ n >= 3 /\ IsCont(bytes[2]) /\ IsCont(bytes[3])
                  THEN <<(b - 224) * 4096 + (bytes[2] - 128) * 64 + (bytes[3] - 128)>>
                       \o Utf8Decode(SubSeq(bytes, 4, n))
             ELSE <<65533>> \o Utf8Decode(Tail(bytes))

\* String::AsciiValue: each code unit cast to char (its low byte)
AsciiValue(str) == [i \in 1..Len(str) |-> str[i] % 256]

\* std::string::c_str() read as a C string: the bytes before the first NUL
RECURSIVE c_str(_)
c_str(s) == IF s = <<>> \/ s[1] = 0 THEN <<>> ELSE <<s[1]>> \o c_str(Tail(s))

\* std::less<std::string>: lexicographic on unsigned bytes
RECURSIVE LessString(_, _)
LessString(a, b) ==
    IF b = <<>> THEN FALSE
    ELSE IF a = <<>> THEN TRUE
    ELSE IF a[1] # b[1] THEN a[1] < b[1]
    ELSE LessString(Tail(a), Tail(b))

(***************************************************************************)
(* JavaScript values, as V8 shows them to the addon.                       *)
(***************************************************************************)
Value(t, num, str, elems, names) ==
    [t |-> t, num |-> num, str |-> str, elems |-> elems, names |-> names]

\* v8::Undefined(); an empty Handle<Value>() reaches JavaScript as undefined too
Undefined == Value("undefined", NoNumber, <<>>, <<>>, <<>>)
Null == Value("null", NoNumber, <<>>, <<>>, <<>>)
Boolean(b) == Value("boolean", NumberOfInt(IF b THEN 1 ELSE 0), <<>>, <<>>, <<>>)
Number_New(n) == Value("number", n, <<>>, <<>>, <<>>)
String_New(str) == Value("string", NoNumber, str, <<>>, <<>>)
Array_New(elems) == Value("array", NoNumber, <<>>, elems, <<>>)
Object_New(names, elems) == Value("object", NoNumber, <<>>, elems, names)
Function_New(names, elems) == Value("function", NoNumber, <<>>, elems, names)

IsNumber(val) == val.t = "number"
IsInt32(val) == val.t = "number" /\ IsInt32Number(val.num)
IsString(val) == val.t = "string"
IsArray(val) == val.t = "array"
\* a JSObject: plain objects, arrays and functions alike
IsObject(val) == val.t \in {"object", "array", "function"}

RECURSIVE DigitsValue(_)
DigitsValue(str) ==
    IF str = <<>> THEN 0
    ELSE DigitsValue(SubSeq(str, 1, Len(str) - 1)) * 10 + (str[Len(str)] - 48)

IsDigits(str) ==
    /\ Len(str) >= 1
    /\ Len(str) <= 9
    /\ \A i \in 1..Len(str) : str[i] >= 48 /\ str[i] <= 57

\* a property name that is an array index ("0", "7", "10"; not "07")
IsArrayIndex(str) == IsDigits(str) /\ (str[1] # 48 \/ Len(str) = 1)

\* v8::Value::IntegerValue: ToInteger of ToNumber of the value, as an int64_t
IntegerValue(val) ==
    IF val.t = "number" THEN Int64(val.num.hi, val.num.lo)
    ELSE IF val.t = "boolean" THEN Int64(val.num.hi, val.num.lo)
    ELSE IF val.t = "string" /\ IsDigits(val.str) THEN Int64(0, DigitsValue(val.str))
    ELSE Zero64

InsertAt(s, i, e) == SubSeq(s, 1, i - 1) \o <<e>> \o SubSeq(s, i, Len(s))
RemoveAt(s, i) == SubSeq(s, 1, i - 1) \o SubSeq(s, i + 1, Len(s))
IndexOf(s, e) == IF \E i \in 1..Len(s) : s[i] = e
                 THEN CHOOSE i \in 1..Len(s) : s[i] = e
                 ELSE 0

\* where V8 enumerates a new own property: array indices ascending first, then
\* the other names in insertion order
PropertyPos(names, name) ==
    IF IsArrayIndex(name)
    THEN 1 + Cardinality({i \in 1..Len(names) :
                 IsArrayIndex(names[i]) /\ DigitsValue(names[i]) < DigitsValue(name)})
    ELSE Len(names) + 1

\* v8::Object::Set(key, value) on an object
Object_Set(obj, name, val) ==
    LET i == IndexOf(obj.names, name)
    IN  IF i # 0
        THEN [obj EXCEPT !.elems[i] = val]
        ELSE LET p == PropertyPos(obj.names, name)
             IN  [obj EXCEPT !.names = InsertAt(obj.names, p, name),
                             !.elems = InsertAt(obj.elems, p, val)]

(***************************************************************************)
(* std::map as a pair of sequences, keys ascending.                        *)
(***************************************************************************)
EmptyMap == [keys |-> <<>>, vals |-> <<>>]

\* std::map::find: the position of k, 0 for end()
MapFind(m, k) == IndexOf(m.keys, k)

\* m[k] = val, p being the number of keys of m that order before k
MapAssign(m, p, k, val) ==
    LET i == MapFind(m, k)
    IN  IF i # 0
        THEN [m EXCEPT !.vals[i] = val]
        ELSE [keys |-> InsertAt(m.keys, p + 1, k), vals |-> InsertAt(m.vals, p + 1, val)]

\* CacheMap: m[k] = val
CacheMap_assign(m, k, val) ==
    MapAssign(m, Cardinality({j \in 1..Len(m.keys) : Less64(m.keys[j], k)}), k, val)

\* MemberMap: m[s] = val
MemberMap_assign(m, s, val) ==
    MapAssign(m, Cardinality({j \in 1..Len(m.keys) : LessString(m.keys[j], s)}), s, val)

\* m.erase(k)
MapErase(m, k) ==
    LET i == MapFind(m, k)
    IN  IF i = 0 THEN m
        ELSE [keys |-> RemoveAt(m.keys, i), vals |-> RemoveAt(m.vals, i)]

(***************************************************************************)
(* The JsValue classes.                                                    *)
(***************************************************************************)
JsNode(t, m_val, m_buff, m_vals, m_keys) ==
    [t |-> t, m_val |-> m_val, m_buff |-> m_buff, m_vals |-> m_vals, m_keys |-> m_keys]

JsUndefined == JsNode("JsUndefined", NoNumber, <<>>, <<>>, <<>>)

JsString_from_v8(val) == JsNode("JsString", NoNumber, WriteUtf8(val.str), <<>>, <<>>)
JsString_to_v8(node) == String_New(Utf8Decode(node.m_buff))

JsNumber_from_v8(val) == JsNode("JsNumber", val.num, <<>>, <<>>, <<>>)
JsNumber_to_v8(node) == Number_New(node.m_val)

JsInt32_from_v8(val) == JsNode("JsInt32", Int32_New(Int32Value(val.num)), <<>>, <<>>, <<>>)
JsInt32_to_v8(node) == Number_New(Int32_New(Int32Value(node.m_val)))

\* JsObj::m_values[s] = node
JsObj_assign(node, s, child) ==
    LET m == MemberMap_assign([keys |-> node.m_keys, vals |-> node.m_vals], s, child)
    IN  [node EXCEPT !.m_keys = m.keys, !.m_vals = m.vals]

\* the key JsObj::to_v8 installs for a stored std::string
JsObj_key_to_v8(s) == Utf8Decode(c_str(s))

\* faulty variant: the IsInt32 test forgotten, every number stored as an int32_t
from_v8_number_unchecked(v8obj) == JsInt32_from_v8(v8obj)

\* the dispatch of from_v8 on a number
from_v8_number(v8obj) ==
    IF IsInt32(v8obj) THEN JsInt32_from_v8(v8obj) ELSE JsNumber_from_v8(v8obj)

RECURSIVE from_v8(_), JsObj_from_v8(_, _, _), to_v8(_), JsObj_to_v8(_, _, _)

\* the loop of JsObj::from_v8 from property i on, out being the JsObj so far
JsObj_from_v8(val, i, node) ==
    IF i > Len(val.names) THEN node
    ELSE JsObj_from_v8(val, i + 1,
             JsObj_assign(node, AsciiValue(val.names[i]), from_v8(val.elems[i])))

from_v8(v8obj) ==
    IF IsNumber(v8obj) THEN from_v8_number(v8obj)
    ELSE IF IsString(v8obj) THEN JsString_from_v8(v8obj)
    ELSE IF IsArray(v8obj)
         THEN JsNode("JsArray", NoNumber, <<>>,
                     [i \in 1..Len(v8obj.elems) |-> from_v8(v8obj.elems[i])], <<>>)
    ELSE IF IsObject(v8obj)
         THEN JsObj_from_v8(v8obj, 1, JsNode("JsObj", NoNumber, <<>>, <<>>, <<>>))
    ELSE JsUndefined

\* the loop of JsObj::to_v8 from map position i on, obj being the object so far
JsObj_to_v8(node, i, obj) ==
    IF i > Len(node.m_keys) THEN obj
    ELSE JsObj_to_v8(node, i + 1,
             Object_Set(obj, JsObj_key_to_v8(node.m_keys[i]), to_v8(node.m_vals[i])))

to_v8(node) ==
    IF node.t = "JsString" THEN JsString_to_v8(node)
    ELSE IF node.t = "JsNumber" THEN JsNumber_to_v8(node)
    ELSE IF node.t = "JsInt32" THEN JsInt32_to_v8(node)
    ELSE IF node.t = "JsArray"
         THEN Array_New([i \in 1..Len(node.m_vals) |-> to_v8(node.m_vals[i])])
    ELSE IF node.t = "JsObj" THEN JsObj_to_v8(node, 1, Object_New(<<>>, <<>>))
    ELSE Undefined

(***************************************************************************)
(* The values the model runs the program on.                               *)
(***************************************************************************)
\* property names: "b", "a", "2", "10", "é" and "a\0c"
SampleNames == << <<98>>, <<97>>, <<50>>, <<49, 48>>, <<233>>, <<97, 0, 99>> >>

\* 1, 2147483648, -2147483649, 1.5, "", "a\0é€", undefined, null, true,
\* function () {}
SampleLeaves ==
    << Number_New(NumberOfInt(1)),
       Number_New(Number(0, INT32_MIN, 0)),
       Number_New(Number(-1, INT32_MAX, 0)),
       Number_New(Number(0, 1, 1)),
       String_New(<<>>),
       String_New(<<97, 0, 233, 8364>>),
       Undefined,
       Null,
       Boolean(TRUE),
       Function_New(<<>>, <<>>) >>

RECURSIVE Size(_)
\* the number of nodes of a JavaScript value
Size(val) ==
    IF val.elems = <<>> THEN 1
    ELSE 1 + Size(val.elems[1]) + Size([val EXCEPT !.elems = Tail(val.elems)]) - 1

NoCall == [op |-> "none", key |-> Undefined, val |-> Undefined]
NoRet == [val |-> Undefined, ref |-> 0]
NoTree == JsUndefined

(***************************************************************************)
(* The codec on its own: a caller builds a JavaScript value, from_v8       *)
(* encodes it and to_v8 decodes the result.                                *)
(***************************************************************************)
StoreIdle == UNCHANGED <<m_cache, call, ret, last, heap>>

Rebuild(val) ==
    /\ v8val' = val
    /\ tree' = NoTree
    /\ out' = Undefined
    /\ pc' = "build"
    /\ StoreIdle

NewLeaf(i) ==
    /\ pc = "start"
    /\ Rebuild(SampleLeaves[i])

Restart ==
    /\ pc = "decoded"
    /\ v8val' = Undefined
    /\ tree' = NoTree
    /\ out' = Undefined
    /\ pc' = "start"
    /\ StoreIdle

WrapArray ==
    /\ pc = "build"
    /\ Size(v8val) < MaxNodes
    /\ Rebuild(Array_New(<<v8val>>))

PushElement(i) ==
    /\ pc = "build"
    /\ v8val.t = "array"
    /\ Size(v8val) < MaxNodes
    /\ Rebuild(Array_New(Append(v8val.elems, SampleLeaves[i])))

WrapObject(n) ==
    /\ pc = "build"
    /\ Size(v8val) < MaxNodes
    /\ Rebuild(Object_Set(Object_New(<<>>, <<>>), SampleNames[n], v8val))

SetProperty(n, i) ==
    /\ pc = "build"
    /\ v8val.t = "object"
    /\ Size(v8val) < MaxNodes
    /\ IndexOf(v8val.names, SampleNames[n]) = 0
    /\ Rebuild(Object_Set(v8val, SampleNames[n], SampleLeaves[i]))

Encode ==
    /\ pc = "build"
    /\ tree' = from_v8(v8val)
    /\ pc' = "encoded"
    /\ UNCHANGED <<v8val, out>>
    /\ StoreIdle

Decode ==
    /\ pc = "encoded"
    /\ out' = to_v8(tree)
    /\ pc' = "decoded"
    /\ UNCHANGED <<v8val, tree>>
    /\ StoreIdle

InitCodec ==
    /\ m_cache = EmptyMap
    /\ call = NoCall
    /\ ret = NoRet
    /\ last = <<>>
    /\ heap = <<>>
    /\ v8val = Undefined
    /\ tree = NoTree
    /\ out = Undefined
    /\ pc = "start"

NextCodec ==
    \/ \E i \in 1..Len(SampleLeaves) : NewLeaf(i)
    \/ WrapArray
    \/ \E i \in 1..Len(SampleLeaves) : PushElement(i)
    \/ \E n \in 1..Len(SampleNames) : WrapObject(n)
    \/ \E n \in 1..Len(SampleNames), i \in 1..Len(SampleLeaves) : SetProperty(n, i)
    \/ Encode
    \/ Decode
    \/ Restart

SpecCodec == InitCodec /\ [][NextCodec]_vars

(***************************************************************************)
(* BypassStore.                                                            *)
(***************************************************************************)
\* key arguments: none (args[0] of a call without arguments is undefined), "k",
\* 0, 0.5, -1.5, 2147483648 and 4294967296
SampleKeys ==
    << Undefined,
       String_New(<<107>>),
       Number_New(NumberOfInt(0)),
       Number_New(Number(0, 0, 1)),
       Number_New(Number(-1, -1, -1)),
       Number_New(Number(0, INT32_MIN, 0)),
       Number_New(Number(1, 0, 0)) >>

\* value arguments: {b: 1, a: ""}, {a: 1.5} and [1, true]
SampleValues ==
    << Object_New(<< <<98>>, <<97>> >>, << Number_New(NumberOfInt(1)), String_New(<<>>) >>),
       Object_New(<< <<97>> >>, << Number_New(Number(0, 1, 1)) >>),
       Array_New(<< Number_New(NumberOfInt(1)), Boolean(TRUE) >>) >>

\* the int64 keys the key arguments stand for
StoreKeys == {IntegerValue(SampleKeys[i]) : i \in 1..Len(SampleKeys)}

\* faulty variant: a handle the store kept is handed out again instead of a new object
NewHandle_cached(h) == IF Len(h) > 0 THEN Len(h) ELSE 1

\* Object::New() and Array::New(): an object distinct from every live one
NewHandle(h) == Len(h) + 1

\* faulty variant: m_cache.insert(...), which keeps an entry that is already there
Set_insert(key, val) ==
    LET k == IntegerValue(key)
    IN  /\ m_cache' = IF MapFind(m_cache, k) # 0 THEN m_cache
                       ELSE CacheMap_assign(m_cache, k, from_v8(val))
        /\ ret' = NoRet

\* BypassStore::Set
Set(key, val) ==
    LET k == IntegerValue(key)
    IN  /\ m_cache' = CacheMap_assign(m_cache, k, from_v8(val))
        /\ ret' = NoRet

\* faulty variant: the lookup done with m_cache[k], which creates the entry it misses
Get_subscript(key) ==
    LET k == IntegerValue(key)
        iter == MapFind(m_cache, k)
        res == IF iter = 0 THEN Undefined ELSE to_v8(m_cache.vals[iter])
    IN  /\ m_cache' = IF iter = 0 THEN CacheMap_assign(m_cache, k, JsUndefined) ELSE m_cache
        /\ ret' = [val |-> res, ref |-> IF IsObject(res) THEN NewHandle(heap) ELSE 0]

\* BypassStore::Get
Get(key) ==
    LET k == IntegerValue(key)
        iter == MapFind(m_cache, k)
        res == IF iter = 0 THEN Undefined ELSE to_v8(m_cache.vals[iter])
    IN  /\ m_cache' = m_cache
        /\ ret' = [val |-> res, ref |-> IF IsObject(res) THEN NewHandle(heap) ELSE 0]

\* faulty variant: m_cache.clear() in place of m_cache.erase(k)
Del_clear(key) ==
    /\ m_cache' = EmptyMap
    /\ ret' = NoRet

\* faulty variant: a key that is no number is refused, and nothing is erased
Del_checked(key) ==
    /\ m_cache' = IF key.t = "number" THEN MapErase(m_cache, IntegerValue(key)) ELSE m_cache
    /\ ret' = NoRet

\* BypassStore::Del
Del(key) ==
    LET k == IntegerValue(key)
    IN  /\ m_cache' = MapErase(m_cache, k)
        /\ ret' = NoRet

\* BypassStore::List
List ==
    /\ m_cache' = m_cache
    /\ ret' = [val |-> Array_New([i \in 1..Len(m_cache.keys) |->
                          Number_New(Int32_New(Narrow32(m_cache.keys[i])))]),
               ref |-> NewHandle(heap)]

(***************************************************************************)
(* The host calling the store, with the history of each key's mutations.   *)
(***************************************************************************)
CodecIdle == UNCHANGED <<v8val, tree, out, pc>>

NoMutation == [op |-> "none", val |-> Undefined]

Room(key) ==
    \/ MapFind(m_cache, IntegerValue(key)) # 0
    \/ Len(m_cache.keys) < MaxEntries

HostSet(key, val) ==
    /\ Room(key)
    /\ Set(key, val)
    /\ call' = [op |-> "set", key |-> key, val |-> val]
    /\ last' = [last EXCEPT ![IntegerValue(key)] = [op |-> "set", val |-> val]]

HostGet(key) ==
    /\ Get(key)
    /\ call' = [op |-> "get", key |-> key, val |-> Undefined]
    /\ last' = last

HostDel(key) ==
    /\ Del(key)
    /\ call' = [op |-> "del", key |-> key, val |-> Undefined]
    /\ last' = [last EXCEPT ![IntegerValue(key)] = [op |-> "del", val |-> Undefined]]

HostList ==
    /\ List
    /\ call' = [op |-> "list", key |-> Undefined, val |-> Undefined]
    /\ last' = last

CallSet(key, val) == HostSet(key, val) /\ heap' = heap /\ CodecIdle
CallGet(key) == HostGet(key) /\ heap' = heap /\ CodecIdle
CallDel(key) == HostDel(key) /\ heap' = heap /\ CodecIdle
CallList == HostList /\ heap' = heap /\ CodecIdle

Init ==
    /\ m_cache = EmptyMap
    /\ call = NoCall
    /\ ret = NoRet
    /\ last = [k \in StoreKeys |-> NoMutation]
    /\ heap = <<>>
    /\ v8val = Undefined
    /\ tree = NoTree
    /\ out = Undefined
    /\ pc = "start"

Next ==
    \/ \E i \in 1..Len(SampleKeys), j \in 1..Len(SampleValues) :
           CallSet(SampleKeys[i], SampleValues[j])
    \/ \E i \in 1..Len(SampleKeys) : CallGet(SampleKeys[i])
    \/ \E i \in 1..Len(SampleKeys) : CallDel(SampleKeys[i])
    \/ CallList

Spec == Init /\ [][Next]_vars

(***************************************************************************)
(* The store with a caller that keeps and changes its own objects: the     *)
(* value passed to set and the values get returned.                        *)
(***************************************************************************)
\* the objects the caller makes: {a: 1.5} and [1]
SampleObjects ==
    << Object_New(<< <<97>> >>, << Number_New(Number(0, 1, 1)) >>),
       Array_New(<< Number_New(NumberOfInt(1)) >>) >>

\* the keys the caller uses: 0 and 2147483648
HeapKeys == << SampleKeys[3], SampleKeys[6] >>

\* a change the caller makes to an object: an array is emptied (or 1 pushed on
\* an empty one), an object has its property b deleted (or set to 1)
Mutated(val) ==
    IF val.t = "array"
    THEN Array_New(IF val.elems = <<>> THEN << Number_New(NumberOfInt(1)) >> ELSE <<>>)
    ELSE LET i == IndexOf(val.names, <<98>>)
         IN  IF i = 0 THEN Object_Set(val, <<98>>, Number_New(NumberOfInt(1)))
             ELSE [val EXCEPT !.names = RemoveAt(val.names, i),
                              !.elems = RemoveAt(val.elems, i)]

Caller(op, val) ==
    /\ call' = [op |-> op, key |-> Undefined, val |-> val]
    /\ ret' = NoRet
    /\ UNCHANGED <<m_cache, last>>
    /\ CodecIdle

CallerNew(i) ==
    /\ Len(heap) < MaxObjects
    /\ heap' = Append(heap, SampleObjects[i])
    /\ Caller("new", SampleObjects[i])

CallerMutate(h) ==
    /\ heap' = [heap EXCEPT ![h] = Mutated(heap[h])]
    /\ Caller("mutate", heap[h])

CallerRelease ==
    /\ heap # <<>>
    /\ heap' = SubSeq(heap, 1, Len(heap) - 1)
    /\ Caller("release", heap[Len(heap)])

HeapSet(key, h) == HostSet(key, heap[h]) /\ heap' = heap /\ CodecIdle

\* the caller keeps the object get returned
HeapGet(key) ==
    /\ HostGet(key)
    /\ heap' = IF ret'.ref = 0 THEN heap
               ELSE [h \in DOMAIN heap \cup {ret'.ref} |->
                        IF h = ret'.ref THEN ret'.val ELSE heap[h]]
    /\ Len(heap') <= MaxObjects
    /\ CodecIdle

HeapDel(key) == HostDel(key) /\ heap' = heap /\ CodecIdle
HeapList == HostList /\ heap' = heap /\ CodecIdle

NextHeap ==
    \/ \E i \in 1..Len(SampleObjects) : CallerNew(i)
    \/ \E h \in DOMAIN heap : CallerMutate(h)
    \/ CallerRelease
    \/ \E i \in 1..Len(HeapKeys), h \in DOMAIN heap : HeapSet(HeapKeys[i], h)
    \/ \E i \in 1..Len(HeapKeys) : HeapGet(HeapKeys[i])
    \/ \E i \in 1..Len(HeapKeys) : HeapDel(HeapKeys[i])
    \/ HeapList

SpecHeap == Init /\ [][NextHeap]_vars

(***************************************************************************)
(* What the claims speak of.                                               *)
(***************************************************************************)
\* n is an integer in [-2^31, 2^31 - 1]
InInt32Range(n) == n.frac = 0 /\ ((n.hi = 0 /\ n.lo >= 0) \/ (n.hi = -1 /\ n.lo < 0))

\* a JavaScript value built only from numbers, strings, arrays and objects
RECURSIVE Representable(_)
Representable(val) ==
    \/ val.t \in {"number", "string"}
    \/ /\ val.t \in {"array", "object"}
       /\ \A i \in 1..Len(val.elems) : Representable(val.elems[i])

\* a JavaScript value that is no number, string, array or plain object
Unsupported(val) == val.t \notin {"number", "string", "array", "object"}

\* structural equality: arrays by position, objects as sets of key/value pairs
RECURSIVE StructEq(_, _)
StructEq(a, b) ==
    /\ a.t = b.t
    /\ a.num = b.num
    /\ a.str = b.str
    /\ Len(a.elems) = Len(b.elems)
    /\ IF a.t = "array"
       THEN \A i \in 1..Len(a.elems) : StructEq(a.elems[i], b.elems[i])
       ELSE /\ {a.names[i] : i \in 1..Len(a.names)} = {b.names[i] : i \in 1..Len(b.names)}
            /\ \A i \in 1..Len(a.names) :
                   StructEq(a.elems[i], b.elems[IndexOf(b.names, a.names[i])])

\* every property name, at every level, is made of ASCII characters other than NUL
RECURSIVE AsciiNames(_)
AsciiNames(val) ==
    /\ \A i \in 1..Len(val.names) :
           \A j \in 1..Len(val.names[i]) : val.names[i][j] >= 1 /\ val.names[i][j] <= 127
    /\ \A i \in 1..Len(val.elems) : AsciiNames(val.elems[i])

\* the same own-property order, at every level
RECURSIVE SameKeyOrder(_, _)
SameKeyOrder(a, b) ==
    /\ a.names = b.names
    /\ Len(a.elems) = Len(b.elems)
    /\ \A i \in 1..Len(a.elems) : SameKeyOrder(a.elems[i], b.elems[i])

\* no JsObj of the tree holds a key twice
RECURSIVE UniqueKeys(_)
UniqueKeys(node) ==
    /\ \A i, j \in 1..Len(node.m_keys) : node.m_keys[i] = node.m_keys[j] => i = j
    /\ \A i \in 1..Len(node.m_vals) : UniqueKeys(node.m_vals[i])

\* no node of the tree is of the Uint32 variant
RECURSIVE NoUint32(_)
NoUint32(node) ==
    /\ node.t # "JsUint32"
    /\ \A i \in 1..Len(node.m_vals) : NoUint32(node.m_vals[i])

\* the numbers of val, at the top and in arrays, are classified and kept in node
RECURSIVE NumbersKept(_, _)
NumbersKept(val, node) ==
    IF val.t = "number"
    THEN /\ node.t = (IF InInt32Range(val.num) THEN "JsInt32" ELSE "JsNumber")
         /\ node.m_val = val.num
    ELSE IF val.t = "array"
    THEN /\ Len(node.m_vals) = Len(val.elems)
         /\ \A i \in 1..Len(val.elems) : NumbersKept(val.elems[i], node.m_vals[i])
    ELSE TRUE

\* the unsupported values of val, at the top and at every nested position, are
\* JsUndefined in node
RECURSIVE Degraded(_, _)
Degraded(val, node) ==
    IF Unsupported(val) THEN node.t = "JsUndefined"
    ELSE IF val.t = "array"
    THEN /\ Len(node.m_vals) = Len(val.elems)
         /\ \A i \in 1..Len(val.elems) : Degraded(val.elems[i], node.m_vals[i])
    ELSE IF val.t = "object"
    THEN \A i \in 1..Len(val.names) :
             LET s == AsciiValue(val.names[i])
                 j == IndexOf(node.m_keys, s)
             IN  /\ j # 0
                 /\ (\A i2 \in 1..Len(val.names) : AsciiValue(val.names[i2]) = s => i2 = i)
                        => Degraded(val.elems[i], node.m_vals[j])
    ELSE TRUE

\* the keys of S in ascending numeric order
RECURSIVE SortKeys(_)
SortKeys(S) ==
    IF S = {} THEN <<>>
    ELSE LET m == CHOOSE x \in S : \A y \in S \ {x} : Less64(x, y)
         IN  <<m>> \o SortKeys(S \ {m})

\* the keys whose most recent mutation is a set
LiveKeys == {k \in DOMAIN last : last[k].op = "set"}

\* what get(k) answers on the store m
GetResult(m, k) == IF MapFind(m, k) = 0 THEN Undefined ELSE to_v8(m.vals[MapFind(m, k)])

\* a key argument that is missing, not numeric, or fractional
CoercedKey(key) == key.t # "number" \/ key.num.frac # 0

\* the integer such a key argument stands for: 0, or the number truncated
ExpectedKey(key) == IF key.t # "number" THEN Zero64 ELSE Int64(key.num.hi, key.num.lo)

(***************************************************************************)
(* The claims on the codec, under SpecCodec.                               *)
(***************************************************************************)

\* C4: for every value built only from numbers, strings, arrays and objects
\* (empty ones, and strings or property names with non-ASCII or NUL characters,
\* included), decode(encode(x)) is structurally equal to x.
RoundTrip ==
    (pc = "decoded" /\ Representable(v8val)) => StructEq(out, v8val)

\* The round trip does hold where every property name is ASCII without NUL; the
\* strings are free.
RoundTripAsciiNames ==
    (pc = "decoded" /\ Representable(v8val) /\ AsciiNames(v8val)) => StructEq(out, v8val)

\* C7: a number is encoded as Int32 exactly when it is an integer in
\* [-2^31, 2^31 - 1] and as Number otherwise, holding the same number; no Uint32
\* node is ever produced; decoding gives the number back.
NumericClassification ==
    (pc \in {"encoded", "decoded"}) =>
        /\ NoUint32(tree)
        /\ NumbersKept(v8val, tree)
        /\ (pc = "decoded" /\ v8val.t = "number") => out = v8val

\* C7: 2147483648 has been encoded as a Number node and decoded to itself.
C7_Witness ==
    /\ pc = "decoded"
    /\ v8val = Number_New(Number(0, INT32_MIN, 0))
    /\ tree.t = "JsNumber"
    /\ out = v8val

\* C8: encode never fails, and every value that is no number, string, array or
\* object (undefined, null, a boolean, a function) is encoded as Undefined, at
\* the top and at every nested position; get then returns Undefined, and an
\* array keeps its length.
FailSoft ==
    (pc \in {"encoded", "decoded"}) =>
        /\ Degraded(v8val, tree)
        /\ (pc = "decoded" /\ Unsupported(v8val)) => out = Undefined
        /\ (pc = "decoded" /\ v8val.t = "array") =>
               /\ Len(out.elems) = Len(v8val.elems)
               /\ \A i \in 1..Len(v8val.elems) :
                      Unsupported(v8val.elems[i]) => out.elems[i] = Undefined

\* C9: the Object variant has unique keys, and the object decode builds has its
\* own properties in the order of the source object, at every level (stated for
\* the objects whose property names are ASCII without NUL).
KeyOrder ==
    (pc = "decoded" /\ AsciiNames(v8val)) =>
        /\ UniqueKeys(tree)
        /\ SameKeyOrder(v8val, out)

(***************************************************************************)
(* The claims on the store, under Spec.                                    *)
(***************************************************************************)

\* C1: list() returns exactly the keys with a live entry, each once, with its
\* own int64 value, in ascending numeric order.
ListComplete ==
    call.op = "list" =>
        LET keys == SortKeys(LiveKeys)
        IN  ret.val = Array_New([i \in 1..Len(keys) |-> Number_New(NumberOfInt64(keys[i]))])

\* C2: if the most recent mutation of k was set(k, v), get(k) returns
\* decode(encode(v)) for that v, and nothing of an earlier value.
LastWriteWins ==
    (call.op = "get" /\ last[IntegerValue(call.key)].op = "set") =>
        ret.val = to_v8(from_v8(last[IntegerValue(call.key)].val))

\* C2: a get of a key last set to {a: 1.5} has returned {a: 1.5}.
C2_Witness ==
    /\ call.op = "get"
    /\ last[IntegerValue(call.key)] = [op |-> "set", val |-> SampleValues[2]]
    /\ ret.val = SampleValues[2]

\* C3: get(k) for a key never set, or deleted last, returns Undefined and creates
\* no entry: the store holds the same keys before and after.
AbsentKey ==
    [][(call'.op = "get" /\ last[IntegerValue(call'.key)].op # "set") =>
          /\ ret'.val = Undefined
          /\ m_cache'.keys = m_cache.keys
          /\ MapFind(m_cache', IntegerValue(call'.key)) = 0]_vars

\* C3: a get of a deleted key has returned Undefined, another entry being live.
C3_Witness ==
    /\ call.op = "get"
    /\ last[IntegerValue(call.key)].op = "del"
    /\ ret.val = Undefined
    /\ Len(m_cache.keys) = 1

\* C6: del(k) removes the entry at k, and changes nothing where there is none;
\* set(k, v) and del(k) leave every other key's membership and get result alone.
FrameOfSetDel ==
    [][(call'.op \in {"set", "del"}) =>
          LET k == IntegerValue(call'.key)
          IN  /\ \A k2 \in StoreKeys \ {k} :
                     /\ (MapFind(m_cache', k2) = 0) = (MapFind(m_cache, k2) = 0)
                     /\ GetResult(m_cache', k2) = GetResult(m_cache, k2)
              /\ call'.op = "del" => MapFind(m_cache', k) = 0
              /\ (call'.op = "del" /\ MapFind(m_cache, k) = 0) => m_cache' = m_cache]_vars

\* C6: a del has left its key absent, another entry being live.
C6_Witness ==
    /\ call.op = "del"
    /\ last[IntegerValue(call.key)].op = "del"
    /\ MapFind(m_cache, IntegerValue(call.key)) = 0
    /\ Len(m_cache.keys) = 1

Isolation ==
    /\ [][/\ call'.op \in {"get", "list", "new", "mutate", "release"} => m_cache' = m_cache
          /\ (call'.op = "get" /\ ret'.ref # 0) =>
                 /\ ret'.ref \notin DOMAIN heap
                 /\ \A h \in DOMAIN heap : heap'[h] = heap[h]
                 /\ heap'[ret'.ref] = ret'.val]_vars
    /\ [](call.op = "get" =>
             ret.val = IF last[IntegerValue(call.key)].op = "set"
                       THEN to_v8(from_v8(last[IntegerValue(call.key)].val))
                       ELSE Undefined)

\* C5: a get has returned a new object equal to the value as it was set, while
\* the caller holds an object of that value that it has changed since.
C5_Witness ==
    /\ call.op = "get"
    /\ ret.ref # 0
    /\ last[IntegerValue(call.key)].op = "set"
    /\ ret.val = last[IntegerValue(call.key)].val
    /\ \E h \in DOMAIN heap \ {ret.ref} : heap[h] = Mutated(ret.val)

====
